---- MODULE Spec2Model ----
(***************************************************************************)
(* The card dealer service of Chapter_12/ch12_r03.py (and its one-route    *)
(* predecessor ch12_r02.py): a process-wide, lazily built, seeded deck     *)
(* that the /dealer/hand and /dealer/hands routes deal from, behind the    *)
(* check_json before-request gate, next to the two OpenAPI routes.         *)
(*                                                                         *)
(* Requests are handled one at a time (dealer.run(threaded=False)), so one *)
(* action is one whole request: gate, validation, get_deck, dealing and    *)
(* the response; Teardown ends it and lets the next one in.  Card and Deck *)
(* come from Chapter_12/ch12_r01, which is not among the sources; they are *)
(* modelled from the specification.                                        *)
(***************************************************************************)
EXTENDS Integers, Sequences, FiniteSets, TLC

\* Most `cards` values one /dealer/hands query string carries.
MaxHands == 3

----------------------------------------------------------------------------
\* Program constants.

DeckSize == 52
HandLimit == 53
DefaultHandSize == 5
DefaultHandSizes == <<13, 13, 13, 13>>
OK == 200
BAD_REQUEST == 400
INTERNAL_SERVER_ERROR == 500

----------------------------------------------------------------------------
\* Text.  A string the code inspects is a sequence of characters.

JSON == <<"j", "s", "o", "n">>
HTML == <<"h", "t", "m", "l">>
ANY_TYPE == <<"*", "/", "*">>
APPLICATION_JSON ==
    <<"a", "p", "p", "l", "i", "c", "a", "t", "i", "o", "n", "/">> \o JSON
TEXT_HTML == <<"t", "e", "x", "t", "/">> \o HTML
JSONP == JSON \o <<"p">>

Digits == <<"0", "1", "2", "3", "4", "5", "6", "7", "8", "9">>

IsDigit(c) == \E i \in 1..Len(Digits) : Digits[i] = c

DigitValue(c) == (CHOOSE i \in 1..Len(Digits) : Digits[i] = c) - 1

RECURSIVE DecimalValue(_)
DecimalValue(ds) ==
    IF ds = <<>> THEN 0
    ELSE 10 * DecimalValue(SubSeq(ds, 1, Len(ds) - 1)) + DigitValue(ds[Len(ds)])

\* Python's int(str): an optional sign, then one or more decimal digits;
\* anything else raises ValueError (ok = FALSE).
int(text) ==
    LET signed == text # <<>> /\ Head(text) \in {"-", "+"}
        digits == IF signed THEN Tail(text) ELSE text
        wellFormed == /\ digits # <<>>
                      /\ \A i \in 1..Len(digits) : IsDigit(digits[i])
    IN  IF ~wellFormed THEN [ok |-> FALSE, value |-> 0]
        ELSE [ok |-> TRUE,
              value |-> IF signed /\ Head(text) = "-"
                        THEN 0 - DecimalValue(digits)
                        ELSE DecimalValue(digits)]

\* Python's `sub in text` on strings.
Contains(sub, text) ==
    \E i \in 0..(Len(text) - Len(sub)) : SubSeq(text, i + 1, i + Len(sub)) = sub

RECURSIVE sum(_)
sum(ns) == IF ns = <<>> THEN 0 ELSE Head(ns) + sum(Tail(ns))

RECURSIVE Flatten(_)
Flatten(seqs) == IF seqs = <<>> THEN <<>> ELSE Head(seqs) \o Flatten(Tail(seqs))

Range(s) == {s[i] : i \in 1..Len(s)}

NoRepeats(s) == Cardinality(Range(s)) = Len(s)

----------------------------------------------------------------------------
\* Card and Deck (Chapter_12/ch12_r01).

SUITS == <<"C", "D", "H", "S">>

Card(rank, suit) == [rank |-> rank, suit |-> suit]

to_json(card) == [class |-> "Card", rank |-> card.rank, suit |-> card.suit]

\* One card per rank x suit, in rank-major order.
AllCards ==
    [i \in 1..DeckSize |-> Card(((i - 1) \div 4) + 1, SUITS[((i - 1) % 4) + 1])]

\* The permutation a generator state yields.  Strides coprime to 52.
Strides == <<3, 5, 7, 9, 11>>

shuffle(state) ==
    LET stride == Strides[(state % Len(Strides)) + 1]
    IN  [i \in 1..DeckSize |-> AllCards[((i * stride) % DeckSize) + 1]]

\* random.seed(a): a given seed fixes the generator state; None takes it
\* from the operating system's entropy.
\* random.seed() called with no argument: the seed is never looked at.
random_seed_unseeded(seed, entropy) == entropy

random_seed(seed, entropy) ==
    IF seed = <<>> THEN entropy ELSE DecimalValue(Head(seed))

NoDeck == [isNone |-> TRUE, cards |-> <<>>]

Deck(state) == [isNone |-> FALSE, cards |-> shuffle(state)]

\* Deck.deal(n): the first n remaining cards, removed from the deck;
\* DeckExhausted (ok = FALSE, deck untouched) when n exceeds what remains.
Deck_deal(d, n) ==
    IF n > Len(d.cards)
    THEN [ok |-> FALSE, hand |-> <<>>, deck |-> d]
    ELSE [ok |-> TRUE,
          hand |-> SubSeq(d.cards, 1, n),
          deck |-> [d EXCEPT !.cards = SubSeq(d.cards, n + 1, Len(d.cards))]]

----------------------------------------------------------------------------
\* Requests and responses.

HAND == "/dealer/hand"
HANDS == "/dealer/hands"
OPENAPI_YAML == "/dealer/openapi.yaml"
OPENAPI_JSON == "/dealer/openapi.json"

\* A header or query parameter is the sequence of values supplied for it:
\* <<>> when absent.
Request(path, accept, format, cards) ==
    [path |-> path, accept |-> accept, format |-> format, cards |-> cards]

Response(status, contentType, error, body) ==
    [status |-> status, contentType |-> contentType, error |-> error,
     body |-> body]

\* flask.abort(status)
abort(status) == Response(status, "text/html", "HTTPException", <<>>)

\* An exception no handler catches: Flask answers 500.
Unhandled(error) == Response(INTERNAL_SERVER_ERROR, "text/html", error, <<>>)

jsonify(body) == Response(OK, "application/json", "", body)

\* MultiDict.get(key, default): the first value supplied, else the default.
get(values, default) == IF values = <<>> THEN default ELSE Head(values)

\* MultiDict.getlist(key, type=int): every supplied value converted by
\* int(); a value whose conversion raises ValueError is left out.
RECURSIVE getlist_int(_)
getlist_int(values) ==
    IF values = <<>> THEN <<>>
    ELSE LET first == int(Head(values))
         IN  IF first.ok THEN <<first.value>> \o getlist_int(Tail(values))
             ELSE getlist_int(Tail(values))

\* The result of handling one request: the response, the module's deck
\* afterwards, the cards Deck.deal took off the deck, and whether get_deck
\* built the deck (and seeded the generator) on the way, and in which order.
Outcome(response, d, removed, g) ==
    [resp |-> response, deck |-> d, removed |-> removed, built |-> g.built,
     order |-> IF g.built THEN g.deck.cards ELSE <<>>]

\* get_deck was not called.
NotCalled == [deck |-> NoDeck, built |-> FALSE]

----------------------------------------------------------------------------
\* The service.

\* get_deck without the `deck is None` test: a new deck on every call.
get_deck_always(d, seed, entropy) ==
    [deck |-> Deck(random_seed(seed, entropy)), built |-> TRUE]

get_deck(d, seed, entropy) ==
    IF d.isNone
    THEN [deck |-> Deck(random_seed(seed, entropy)), built |-> TRUE]
    ELSE [deck |-> d, built |-> FALSE]

\* The gate of ch12_r02.py, which has no OpenAPI routes to let through.
check_json_no_exemption(r) ==
    \/ Contains(JSON, get(r.accept, ANY_TYPE))
    \/ JSON = get(r.format, HTML)

\* The gate with $format tested like the Accept header: `"json" in ...`.
check_json_format_contains(r) ==
    \/ r.path \in {OPENAPI_YAML, OPENAPI_JSON}
    \/ Contains(JSON, get(r.accept, ANY_TYPE))
    \/ Contains(JSON, get(r.format, HTML))

\* before_request: TRUE when the request may proceed (the hook returns
\* None), FALSE when it aborts with 400.
check_json(r) ==
    \/ r.path \in {OPENAPI_YAML, OPENAPI_JSON}
    \/ Contains(JSON, get(r.accept, ANY_TYPE))
    \/ JSON = get(r.format, HTML)

swagger2(r, d) ==
    Outcome(Response(OK, "application/yaml", "", <<>>), d, <<>>, NotCalled)

swagger3(r, d) ==
    Outcome(Response(OK, "application/json", "", <<>>), d, <<>>, NotCalled)

\* The range test with its upper end included.
ValidHandSize_inclusive(n) == 1 <= n /\ n <= HandLimit

\* assert 1 <= hand_size < 53
ValidHandSize(n) == 1 <= n /\ n < HandLimit

\* The list test without the assertion on the sum.
ValidHandSizes_no_sum(ns) ==
    \A i \in 1..Len(ns) : 1 <= ns[i] /\ ns[i] < HandLimit

\* The list test with the sum's upper end included.
ValidHandSizes_sum_inclusive(ns) ==
    /\ \A i \in 1..Len(ns) : 1 <= ns[i] /\ ns[i] < HandLimit
    /\ sum(ns) <= HandLimit

\* assert all(1 <= hand_size < 53 ...); assert sum(hand_sizes) < 53
ValidHandSizes(ns) ==
    /\ \A i \in 1..Len(ns) : 1 <= ns[i] /\ ns[i] < HandLimit
    /\ sum(ns) < HandLimit

\* The size read from a parameter the request never carries: always 5.
hand_size_default(cards) == [ok |-> TRUE, value |-> DefaultHandSize]

\* int(request.args.get("cards", 5))
hand_size_of(cards) ==
    IF cards = <<>> THEN [ok |-> TRUE, value |-> DefaultHandSize]
    ELSE int(get(cards, <<>>))

\* The view function of /dealer/hand.
deal(r, d, seed, entropy) ==
    LET hand_size == hand_size_of(r.cards)
    IN  IF ~hand_size.ok \/ ~ValidHandSize(hand_size.value)
        THEN Outcome(abort(BAD_REQUEST), d, <<>>, NotCalled)
        ELSE LET g == get_deck(d, seed, entropy)
                 dealt_ == Deck_deal(g.deck, hand_size.value)
             IN  IF ~dealt_.ok
                 THEN Outcome(Unhandled("DeckExhausted"), g.deck, <<>>, g)
                 ELSE Outcome(
                        jsonify([i \in 1..Len(dealt_.hand) |->
                                    to_json(dealt_.hand[i])]),
                        dealt_.deck, dealt_.hand, g)

\* Every hand dealt from the deck as it stood when the request came in;
\* the deck keeps the last deal's removal only.
RECURSIVE DealEach_same_cards(_, _)
DealEach_same_cards(d, hand_sizes) ==
    IF hand_sizes = <<>> THEN [ok |-> TRUE, hands |-> <<>>, deck |-> d]
    ELSE LET first == Deck_deal(d, Head(hand_sizes))
             rest == DealEach_same_cards(d, Tail(hand_sizes))
         IN  IF ~first.ok THEN [ok |-> FALSE, hands |-> <<>>, deck |-> d]
             ELSE [ok |-> rest.ok,
                   hands |-> <<first.hand>> \o rest.hands,
                   deck |-> IF Tail(hand_sizes) = <<>> THEN first.deck
                            ELSE rest.deck]

\* [deck.deal(hand_size) for hand_size in hand_sizes]: one deal after the
\* other against the same deck; the first deal that raises ends the list
\* comprehension, the deals before it having taken their cards.
RECURSIVE DealEach(_, _)
DealEach(d, hand_sizes) ==
    IF hand_sizes = <<>> THEN [ok |-> TRUE, hands |-> <<>>, deck |-> d]
    ELSE LET first == Deck_deal(d, Head(hand_sizes))
         IN  IF ~first.ok THEN [ok |-> FALSE, hands |-> <<>>, deck |-> d]
             ELSE LET rest == DealEach(first.deck, Tail(hand_sizes))
                  IN  [ok |-> rest.ok,
                       hands |-> <<first.hand>> \o rest.hands,
                       deck |-> rest.deck]

\* enumerate(hands, 1)
HandsJson_from_one(hands) ==
    [i \in 1..Len(hands) |->
        [hand |-> i,
         cards |-> [j \in 1..Len(hands[i]) |-> to_json(hands[i][j])]]]

\* [{"hand": i, "cards": [...]} for i, hand in enumerate(hands)]
HandsJson(hands) ==
    [i \in 1..Len(hands) |->
        [hand |-> i - 1,
         cards |-> [j \in 1..Len(hands[i]) |-> to_json(hands[i][j])]]]

\* The view function of /dealer/hands.
multi_hand(r, d, seed, entropy) ==
    LET supplied == getlist_int(r.cards)
        hand_sizes == IF Len(supplied) = 0 THEN DefaultHandSizes ELSE supplied
    IN  IF ~ValidHandSizes(hand_sizes)
        THEN Outcome(abort(BAD_REQUEST), d, <<>>, NotCalled)
        ELSE LET g == get_deck(d, seed, entropy)
                 each == DealEach(g.deck, hand_sizes)
             IN  IF ~each.ok
                 THEN Outcome(Unhandled("DeckExhausted"), each.deck,
                              Flatten(each.hands), g)
                 ELSE Outcome(jsonify(HandsJson(each.hands)), each.deck,
                              Flatten(each.hands), g)

\* Flask's dispatch: the before_request hook, then the route's view.
Dispatch(r, d, seed, entropy) ==
    IF ~check_json(r) THEN Outcome(abort(BAD_REQUEST), d, <<>>, NotCalled)
    ELSE CASE r.path = HAND -> deal(r, d, seed, entropy)
           [] r.path = HANDS -> multi_hand(r, d, seed, entropy)
           [] r.path = OPENAPI_YAML -> swagger2(r, d)
           [] r.path = OPENAPI_JSON -> swagger3(r, d)

----------------------------------------------------------------------------
\* State.

VARIABLES
    seedEnv,    \* os.environ.get("DEAL_APP_SEED"): <<>> when unset
    deck,       \* the module global `deck`; NoDeck while it is None
    order,      \* history: the card order of the deck when it was built
    dealt,      \* history: every card Deck.deal has handed out, in order
    seedReads,  \* history: how often get_deck read the seed and built a deck
    req,        \* the request handled last
    resp,       \* the response to it
    twin,       \* a second run of the service: its deck and its response
    EventCounter_counts,  \* the class attribute EventCounter._counts
    instances,  \* the EventCounter objects created: each one's own attributes
    log,        \* history: the count calls made, as <<instance, key, increment>>
    reported,   \* what the last call returned: a counts() result, or nothing
    heap,       \* threaded service: the Deck objects built, each one's cards
    deckRef,    \* threaded service: the global `deck`, an object or None
    generator,  \* threaded service: the state of the random generator
    threads,    \* threaded service: where each thread is in its request
    returned,   \* history: the hands returned, in the order of the returns
    overlapped  \* history: a request began while another was in flight

dealerVars == <<seedEnv, deck, order, dealt, seedReads, req, resp>>

counterVars == <<EventCounter_counts, instances, log, reported>>

concurrentVars == <<heap, deckRef, generator, threads, returned, overlapped>>

vars == <<dealerVars, twin, counterVars, concurrentVars>>

\* The inputs.
Seeds == {<<>>, << <<"4", "2">> >>}

\* What the operating system's entropy source may hand to random.seed(None).
Entropy == {0, 1}

\* The texts supplied as cards values: of /dealer/hands, and of /dealer/hand.
Tokens ==
    {<<"0">>, <<"1">>, <<"2", "6">>, <<"2", "7">>, <<"5", "2">>, <<"5", "3">>,
     <<"x">>}

HandTokens == Tokens \cup {<<"-", "1">>, <<"5">>}

RECURSIVE SeqsUpTo(_, _)
SeqsUpTo(S, n) ==
    IF n = 0 THEN {<<>>}
    ELSE LET shorter == SeqsUpTo(S, n - 1)
         IN  shorter \cup
             {<<x>> \o s : x \in S, s \in {t \in shorter : Len(t) = n - 1}}

AcceptHeaders == {<<>>, <<APPLICATION_JSON>>, <<TEXT_HTML>>}

FormatArgs == {<<>>, <<JSON>>, <<HTML>>, <<JSONP>>}

\* /dealer/hand requests: every gate combination with the default size,
\* and every size token behind an accepted gate.
HandRequests ==
    {Request(HAND, a, f, <<>>) : a \in AcceptHeaders, f \in FormatArgs}
    \cup {Request(HAND, <<APPLICATION_JSON>>, <<>>, <<t>>) : t \in HandTokens}

\* /dealer/hands requests: every gate combination with the default sizes,
\* and every list of at most MaxHands size tokens behind an accepted gate.
HandsRequests ==
    {Request(HANDS, a, f, <<>>) : a \in AcceptHeaders, f \in FormatArgs}
    \cup {Request(HANDS, <<APPLICATION_JSON>>, <<>>, c) :
            c \in SeqsUpTo(Tokens, MaxHands)}

OpenApiRequests(path) ==
    {Request(path, a, f, <<>>) : a \in AcceptHeaders, f \in FormatArgs}

NoRequest == Request("", <<>>, <<>>, <<>>)

NoResponse == Response(0, "", "", <<>>)

\* The second run before its first request.
TwinIdle == twin = [deck |-> NoDeck, resp |-> NoResponse]

\* Chapter_07/ch07_r04.py just imported: an empty Counter, no instance.
NothingReported == [by |-> 0, result |-> <<>>]

CounterIdle ==
    /\ EventCounter_counts = <<>>
    /\ instances = <<>>
    /\ log = <<>>
    /\ reported = NothingReported

\* The threaded service just started: no Deck object, every thread idle.
Threads == {1, 2}

NoObject == 0

Idle == [pc |-> "idle", hand_size |-> 0, d |-> NoObject, seen |-> <<>>,
         served |-> 0]

ConcurrentIdle ==
    /\ heap = <<>>
    /\ deckRef = NoObject
    /\ generator = 0
    /\ threads = [t \in Threads |-> Idle]
    /\ returned = <<>>
    /\ overlapped = FALSE

\* What the dealer specification leaves alone.
otherVars == <<twin, counterVars, concurrentVars>>

Init ==
    /\ seedEnv \in Seeds
    /\ deck = NoDeck
    /\ order = <<>>
    /\ dealt = <<>>
    /\ seedReads = 0
    /\ req = NoRequest
    /\ resp = NoResponse
    /\ TwinIdle
    /\ CounterIdle
    /\ ConcurrentIdle

\* One request, start to finish.
Handle(r, entropy) ==
    \E out \in {Dispatch(r, deck, seedEnv, entropy)} :
        /\ req' = r
        /\ resp' = out.resp
        /\ deck' = out.deck
        /\ dealt' = dealt \o out.removed
        /\ order' = IF out.built THEN out.order ELSE order
        /\ seedReads' = IF out.built THEN seedReads + 1 ELSE seedReads
        /\ UNCHANGED seedEnv

\* threaded=False: the server takes the next request only when the one
\* before is finished.
GetHand ==
    /\ req = NoRequest
    /\ \E r \in HandRequests, entropy \in Entropy : Handle(r, entropy)
    /\ UNCHANGED otherVars

GetHands ==
    /\ req = NoRequest
    /\ \E r \in HandsRequests, entropy \in Entropy : Handle(r, entropy)
    /\ UNCHANGED otherVars

GetOpenApiYaml ==
    /\ req = NoRequest
    /\ \E r \in OpenApiRequests(OPENAPI_YAML) : Handle(r, 0)
    /\ UNCHANGED otherVars

GetOpenApiJson ==
    /\ req = NoRequest
    /\ \E r \in OpenApiRequests(OPENAPI_JSON) : Handle(r, 0)
    /\ UNCHANGED otherVars

\* The response is sent and Flask pops the request context: `request` is
\* bound to nothing until the next request arrives.
EndRequest ==
    /\ req # NoRequest
    /\ req' = NoRequest
    /\ resp' = NoResponse
    /\ UNCHANGED <<seedEnv, deck, order, dealt, seedReads>>

Teardown == EndRequest /\ UNCHANGED otherVars

Next == GetHand \/ GetHands \/ GetOpenApiYaml \/ GetOpenApiJson \/ Teardown

Spec == Init /\ [][Next]_vars

----------------------------------------------------------------------------
\* Two runs of the service, started with the same DEAL_APP_SEED and sent the
\* same requests; each run has its own process, deck and entropy source.

TwinHandle(r, entropy) ==
    \E out \in {Dispatch(r, twin.deck, seedEnv, entropy)} :
        twin' = [deck |-> out.deck, resp |-> out.resp]

\* Every request of the bounded input set.
AllRequests ==
    HandRequests \cup HandsRequests
    \cup OpenApiRequests(OPENAPI_YAML) \cup OpenApiRequests(OPENAPI_JSON)

TwinRequest ==
    /\ req = NoRequest
    /\ \E r \in AllRequests, e1 \in Entropy, e2 \in Entropy :
          Handle(r, e1) /\ TwinHandle(r, e2)
    /\ UNCHANGED <<counterVars, concurrentVars>>

TwinTeardown ==
    /\ EndRequest
    /\ twin' = [twin EXCEPT !.resp = NoResponse]
    /\ UNCHANGED <<counterVars, concurrentVars>>

TwinNext == TwinRequest \/ TwinTeardown

SpecTwin == Init /\ [][TwinNext]_vars

----------------------------------------------------------------------------
\* The dealer served by several threads (dealer.run with threaded=True):
\* /dealer/hand requests whose steps interleave.  Nothing in the code
\* keeps one thread out of get_deck or Deck.deal while another is inside.

\* Most requests one thread serves.
MaxRequests == 2

\* The hand sizes asked for: one card, and the whole deck.
HandSizesAsked == {1, DeckSize}

\* `if deck is None` with the test left out: every request builds a deck.
deck_is_None_always(ref) == TRUE

\* get_deck: `if deck is None`
deck_is_None(ref) == ref = NoObject

\* The request enters deal(): the gate and the validation have passed.
Begin(t) ==
    /\ threads[t].pc = "idle"
    /\ threads[t].served < MaxRequests
    /\ \E hand_size \in HandSizesAsked :
         /\ ValidHandSize(hand_size)
         /\ threads' = [threads EXCEPT ![t] =
               [@ EXCEPT !.pc = "get_deck", !.hand_size = hand_size,
                         !.served = @ + 1]]
    /\ overlapped' = (overlapped \/ \E u \in Threads \ {t} :
                                       threads[u].pc # "idle")
    /\ UNCHANGED <<heap, deckRef, generator, returned>>
    /\ UNCHANGED <<dealerVars, twin, counterVars>>

\* get_deck: the test of the global.
TestNone(t) ==
    /\ threads[t].pc = "get_deck"
    /\ threads' = [threads EXCEPT ![t].pc =
                      IF deck_is_None(deckRef) THEN "seed" ELSE "return"]
    /\ UNCHANGED <<heap, deckRef, generator, returned, overlapped>>
    /\ UNCHANGED <<dealerVars, twin, counterVars>>

\* get_deck: random.seed(os.environ.get('DEAL_APP_SEED'))
Seed(t) ==
    /\ threads[t].pc = "seed"
    /\ \E entropy \in Entropy :
         generator' = random_seed(seedEnv, entropy)
    /\ threads' = [threads EXCEPT ![t].pc = "build"]
    /\ UNCHANGED <<heap, deckRef, returned, overlapped>>
    /\ UNCHANGED <<dealerVars, twin, counterVars>>

\* get_deck: deck = Deck().  The shuffle uses the generator as it is now
\* and moves it on.
Build(t) ==
    /\ threads[t].pc = "build"
    /\ heap' = Append(heap, Deck(generator).cards)
    /\ deckRef' = Len(heap) + 1
    /\ generator' = generator + 1
    /\ threads' = [threads EXCEPT ![t].pc = "return"]
    /\ UNCHANGED <<returned, overlapped>>
    /\ UNCHANGED <<dealerVars, twin, counterVars>>

\* get_deck: return deck, the object the global names at this moment.
Return(t) ==
    /\ threads[t].pc = "return"
    /\ threads' = [threads EXCEPT ![t] = [@ EXCEPT !.pc = "deal",
                                                   !.d = deckRef]]
    /\ UNCHANGED <<heap, deckRef, generator, returned, overlapped>>
    /\ UNCHANGED <<dealerVars, twin, counterVars>>

\* Deck.deal: the remaining count is checked and the cards are read.
\* DeckExhausted ends the request with no cards.
DealRead(t) ==
    /\ threads[t].pc = "deal"
    /\ \E out \in {Deck_deal([isNone |-> FALSE, cards |-> heap[threads[t].d]],
                             threads[t].hand_size)} :
         IF out.ok
         THEN /\ threads' = [threads EXCEPT ![t] =
                    [@ EXCEPT !.pc = "remove", !.seen = heap[threads[t].d]]]
              /\ UNCHANGED returned
         ELSE /\ threads' = [threads EXCEPT ![t] =
                    [Idle EXCEPT !.served = threads[t].served]]
              /\ returned' = Append(returned, [thread |-> t, cards |-> <<>>])
    /\ UNCHANGED <<heap, deckRef, generator, overlapped>>
    /\ UNCHANGED <<dealerVars, twin, counterVars>>

\* Deck.deal: the cards read are removed, the object is left with what this
\* thread saw remaining, and the hand goes out in the response.
DealWrite(t) ==
    /\ threads[t].pc = "remove"
    /\ \E out \in {Deck_deal([isNone |-> FALSE, cards |-> threads[t].seen],
                             threads[t].hand_size)} :
         /\ heap' = [heap EXCEPT ![threads[t].d] = out.deck.cards]
         /\ returned' = Append(returned, [thread |-> t, cards |-> out.hand])
    /\ threads' = [threads EXCEPT ![t] =
                      [Idle EXCEPT !.served = threads[t].served]]
    /\ UNCHANGED <<deckRef, generator, overlapped>>
    /\ UNCHANGED <<dealerVars, twin, counterVars>>

ConcurrentNext ==
    \E t \in Threads :
       \/ Begin(t)
       \/ TestNone(t)
       \/ Seed(t)
       \/ Build(t)
       \/ Return(t)
       \/ DealRead(t)
       \/ DealWrite(t)

SpecConcurrent == Init /\ [][ConcurrentNext]_vars

----------------------------------------------------------------------------
\* EventCounter (Chapter_07/ch07_r04.py).

\* Most EventCounter objects created, and most count calls made.
MaxInstances == 3
MaxCalls == 3

Keys == {"input", "output"}

Increments == {-1, 1}

\* A collections.Counter is a dict: its keys in insertion order, each with
\* its count.  A key it does not hold counts 0.

\* c[key] += increment
Counter_iadd(c, key, increment) ==
    IF \E i \in 1..Len(c) : c[i].key = key
    THEN [i \in 1..Len(c) |->
            IF c[i].key = key THEN [c[i] EXCEPT !.n = @ + increment] ELSE c[i]]
    ELSE Append(c, [key |-> key, n |-> increment])

\* sorted(..., key=itemgetter(1), reverse=True): stable, largest count first.
RECURSIVE InsertByCount(_, _)
InsertByCount(item, sorted) ==
    IF sorted = <<>> THEN <<item>>
    ELSE IF Head(sorted).n >= item.n
         THEN <<Head(sorted)>> \o InsertByCount(item, Tail(sorted))
         ELSE <<item>> \o sorted

RECURSIVE most_common(_)
most_common(c) ==
    IF c = <<>> THEN <<>>
    ELSE InsertByCount(c[Len(c)], most_common(SubSeq(c, 1, Len(c) - 1)))

\* count with the Counter kept per object (made in __init__) rather than
\* on the class.
count_per_instance(self, key, increment, cls, insts) ==
    [cls |-> cls,
     insts |-> [insts EXCEPT ![self] =
                  <<Counter_iadd(IF @ = <<>> THEN <<>> ELSE Head(@),
                                 key, increment)>>]]

\* EventCounter.count: the class attribute is updated, whatever self is.
count(self, key, increment, cls, insts) ==
    [cls |-> Counter_iadd(cls, key, increment), insts |-> insts]

\* EventCounter.counts
counts(self, cls, insts) == most_common(cls)

NewEventCounter ==
    /\ Len(instances) < MaxInstances
    /\ instances' = Append(instances, <<>>)
    /\ UNCHANGED <<EventCounter_counts, log, reported>>
    /\ UNCHANGED <<dealerVars, twin, concurrentVars>>

Count ==
    /\ Len(log) < MaxCalls
    /\ \E self \in 1..Len(instances), key \in Keys, increment \in Increments :
         \E after \in {count(self, key, increment, EventCounter_counts,
                             instances)} :
            /\ EventCounter_counts' = after.cls
            /\ instances' = after.insts
            /\ log' = Append(log, <<self, key, increment>>)
    /\ reported' = NothingReported
    /\ UNCHANGED <<dealerVars, twin, concurrentVars>>

Counts ==
    /\ \E self \in 1..Len(instances) :
         reported' = [by |-> self,
                      result |-> counts(self, EventCounter_counts, instances)]
    /\ UNCHANGED <<EventCounter_counts, instances, log>>
    /\ UNCHANGED <<dealerVars, twin, concurrentVars>>

CounterNext == NewEventCounter \/ Count \/ Counts

\* The module is used on its own: no dealer runs and no seed is set.
CounterInit == Init /\ seedEnv = <<>>

SpecCounter == CounterInit /\ [][CounterNext]_vars

----------------------------------------------------------------------------
\* What a request asks for and what a response carries, read off the
\* request and the response alone.

from_json(j) == Card(j.rank, j.suit)

\* The cards of a 200 response, in the order they appear in it.
ResponseCards(r, response) ==
    LET body == response.body
        jsons == IF response.status # OK THEN <<>>
                 ELSE IF r.path = HAND THEN body
                 ELSE IF r.path = HANDS
                      THEN Flatten([i \in 1..Len(body) |-> body[i].cards])
                 ELSE <<>>
    IN  [i \in 1..Len(jsons) |-> from_json(jsons[i])]

IsDealing(r) == r.path \in {HAND, HANDS}

\* Every supplied cards value is the text of an integer.
WellFormed(r) == \A i \in 1..Len(r.cards) : int(r.cards[i]).ok

\* The integers among the supplied cards values, in order.
SuppliedIntegers(r) ==
    LET texts == SelectSeq(r.cards, LAMBDA t : int(t).ok)
    IN  [i \in 1..Len(texts) |-> int(texts[i]).value]

\* The sizes a well-formed request asks for, defaults included.
Sizes(r) ==
    IF r.cards # <<>> THEN [i \in 1..Len(r.cards) |-> int(r.cards[i]).value]
    ELSE IF r.path = HAND THEN <<5>> ELSE <<13, 13, 13, 13>>

InRange(ns) == \A i \in 1..Len(ns) : ns[i] \in 1..52

\* The request is well-formed, each size is in 1..52 and they sum to <= 52.
Acceptable(r) == WellFormed(r) /\ InRange(Sizes(r)) /\ sum(Sizes(r)) <= 52

\* The cards left to deal: all 52 while the deck is yet to be built.
Remaining(d) == IF d.isNone THEN 52 ELSE Len(d.cards)

DeckExhausted(response) ==
    /\ response.status = INTERNAL_SERVER_ERROR
    /\ response.error = "DeckExhausted"
    /\ response.body = <<>>

----------------------------------------------------------------------------
\* C1: across any sequence of /dealer/hand and /dealer/hands requests no
\* card is returned twice: the cards of every response are pairwise
\* different, none of them was handed out by the deck before the request,
\* none of them is still in the deck, and the cards handed out so far
\* together with the cards remaining never hold a card twice.
C1_NoCardTwice ==
    [][LET cards == ResponseCards(req', resp')
       IN  /\ NoRepeats(cards)
           /\ Range(cards) \cap Range(dealt) = {}
           /\ Range(cards) \cap Range(deck'.cards) = {}
           /\ Range(cards) \subseteq Range(dealt')
           /\ NoRepeats(dealt' \o deck'.cards)]_vars

\* A second or later request returned several hands and cards remain.
C1_Witness ==
    /\ req.path = HANDS
    /\ resp.status = OK
    /\ Len(resp.body) >= 2
    /\ Len(dealt) > Len(ResponseCards(req, resp))
    /\ deck.cards # <<>>

\* C2: once the deck is built, the cards remaining plus the cards dealt
\* since then number 52; before that nothing has been dealt.
C2_RemainingPlusDealt ==
    IF deck.isNone THEN dealt = <<>>
    ELSE Len(deck.cards) + Len(dealt) = DeckSize

\* Some but not all cards are dealt, the last request having failed.
C2_Witness ==
    /\ ~deck.isNone
    /\ Len(dealt) \in 1..(DeckSize - 1)
    /\ DeckExhausted(resp)

\* C3: a dealing request that passes the gate and validation but asks for
\* more cards than remain ends in DeckExhausted and returns no cards.
C3_DeckExhausted ==
    [][(/\ IsDealing(req')
        /\ check_json(req')
        /\ Acceptable(req')
        /\ sum(Sizes(req')) > Remaining(deck))
       => DeckExhausted(resp')]_vars

\* A /dealer/hand request of a valid size met a deck with fewer cards.
C3_Witness ==
    /\ req.path = HAND
    /\ check_json(req)
    /\ Acceptable(req)
    /\ DeckExhausted(resp)
    /\ Len(deck.cards) < Sizes(req)[1]

\* C4 (as claimed): a request that fails with DeckExhausted leaves the deck
\* exactly as it was before the request.
C4_FailureKeepsDeck ==
    [][DeckExhausted(resp') => deck' = deck /\ dealt' = dealt]_vars

\* C5: a /dealer/hands request with an integer size outside 1..52, or with
\* integer sizes summing to 53 or more, is answered 400 with no cards, and
\* the deck is as before: not built, not shortened, no hand dealt.
C5_RejectedBeforeDealing ==
    [][(/\ req'.path = HANDS
        /\ check_json(req')
        /\ \/ ~InRange(SuppliedIntegers(req'))
           \/ sum(SuppliedIntegers(req')) >= 53)
       => /\ resp'.status = BAD_REQUEST
          /\ resp'.body = <<>>
          /\ deck' = deck
          /\ dealt' = dealt
          /\ seedReads' = seedReads]_vars

\* A list whose first size the deck could have served was rejected for what
\* follows it.
C5_Witness ==
    /\ req.path = HANDS
    /\ check_json(req)
    /\ resp.status = BAD_REQUEST
    /\ Len(req.cards) >= 2
    /\ int(req.cards[1]).ok
    /\ int(req.cards[1]).value \in 1..Len(deck.cards)
    /\ dealt # <<>>

\* C6 (as claimed): a /dealer/hand request that passes the gate is answered
\* 400 exactly when its cards value (5 when absent) is not the text of an
\* integer or is outside 1..52; cards=1 succeeds, and cards=52 succeeds as
\* the first request against a fresh deck.
C6_HandValidationAsClaimed ==
    [][(req'.path = HAND /\ check_json(req'))
       => /\ resp'.status = BAD_REQUEST <=> ~Acceptable(req')
          /\ req'.cards = << <<"1">> >> => resp'.status = OK
          /\ (req'.cards = << <<"5", "2">> >> /\ Remaining(deck) = 52)
             => resp'.status = OK]_vars

\* C6 (amended): a /dealer/hand request that passes the gate is answered 400
\* exactly when its cards value (5 when absent) is not the text of an
\* integer or is outside 1..52; a request of a size in 1..52 succeeds with
\* that many cards whenever that many remain: cards=1 while a card is left,
\* cards=52 on a deck nothing was dealt from.
C6_HandValidation ==
    [][(req'.path = HAND /\ check_json(req'))
       => /\ resp'.status = BAD_REQUEST <=> ~Acceptable(req')
          /\ (Acceptable(req') /\ Sizes(req')[1] <= Remaining(deck))
             => /\ resp'.status = OK
                /\ Len(resp'.body) = Sizes(req')[1]]_vars

\* cards=1 succeeded on a deck that earlier requests had dealt from.
C6_Witness ==
    /\ req.path = HAND
    /\ check_json(req)
    /\ req.cards = << <<"1">> >>
    /\ resp.status = OK
    /\ Len(resp.body) = 1
    /\ Len(dealt) > 1

\* C7: a /dealer/hands request that passes the gate and whose cards values
\* are all integers is accepted exactly when every size is in 1..52 and
\* the sizes sum to at most 52, the sizes being 13, 13, 13, 13 when no
\* cards value is supplied; an accepted request the deck can serve
\* succeeds with hands of the requested sizes.
C7_HandsValidation ==
    [][(req'.path = HANDS /\ check_json(req') /\ WellFormed(req'))
       => /\ resp'.status # BAD_REQUEST <=> Acceptable(req')
          /\ (Acceptable(req') /\ sum(Sizes(req')) <= Remaining(deck))
             => /\ resp'.status = OK
                /\ Len(resp'.body) = Len(Sizes(req'))
                /\ \A i \in 1..Len(resp'.body) :
                      Len(resp'.body[i].cards) = Sizes(req')[i]]_vars

\* Sizes in range that sum to exactly 53 were answered 400.
C7_Witness ==
    /\ req.path = HANDS
    /\ check_json(req)
    /\ WellFormed(req)
    /\ InRange(Sizes(req))
    /\ sum(Sizes(req)) = 53
    /\ resp.status = BAD_REQUEST

\* C8 (as claimed): a /dealer/hands request that passes the gate and has a
\* cards value that is not the text of an integer is answered 400 and
\* deals no cards.
C8_MalformedRejected ==
    [][(/\ req'.path = HANDS
        /\ check_json(req')
        /\ ~WellFormed(req'))
       => /\ resp'.status = BAD_REQUEST
          /\ deck' = deck
          /\ dealt' = dealt]_vars

\* C9: a successful /dealer/hands request for sizes n1..nk is answered with
\* k entries in request order, the i-th with hand index i - 1 and n_i
\* cards; no card occurs twice in the response, and the deck's remaining
\* count goes down by n1 + ... + nk.
C9_HandsResponse ==
    [][(req'.path = HANDS /\ resp'.status = OK /\ WellFormed(req'))
       => LET ns == Sizes(req')
              body == resp'.body
          IN  /\ Len(body) = Len(ns)
              /\ \A i \in 1..Len(body) :
                    /\ body[i].hand = i - 1
                    /\ Len(body[i].cards) = ns[i]
              /\ NoRepeats(ResponseCards(req', resp'))
              /\ Len(ResponseCards(req', resp')) = sum(ns)
              /\ Len(deck'.cards) = Remaining(deck) - sum(ns)]_vars

\* Two hands of different sizes were returned.
C9_Witness ==
    /\ req.path = HANDS
    /\ resp.status = OK
    /\ WellFormed(req)
    /\ Len(req.cards) = 2
    /\ Len(resp.body) = 2
    /\ Len(resp.body[1].cards) # Len(resp.body[2].cards)

\* C10: a successful /dealer/hand request of size n returns exactly the
\* first n cards of the deck's remaining sequence, in order and pairwise
\* different, and leaves the rest of that sequence as the deck.
C10_HandResponse ==
    [][(req'.path = HAND /\ resp'.status = OK)
       => LET n == Sizes(req')[1]
              before == IF deck.isNone THEN order' ELSE deck.cards
              body == resp'.body
          IN  /\ WellFormed(req')
              /\ Len(body) = n
              /\ n <= Len(before)
              /\ body = [i \in 1..n |-> to_json(before[i])]
              /\ NoRepeats(body)
              /\ Len(deck'.cards) = Len(before) - n
              /\ deck'.cards = SubSeq(before, n + 1, Len(before))]_vars

\* A hand was returned from a deck that earlier requests had dealt from.
C10_Witness ==
    /\ req.path = HAND
    /\ resp.status = OK
    /\ Len(dealt) > Len(resp.body)
    /\ deck.cards # <<>>

----------------------------------------------------------------------------
IsSuffix(s, t) ==
    /\ Len(s) <= Len(t)
    /\ s = SubSeq(t, Len(t) - Len(s) + 1, Len(t))

\* The request says it takes JSON: "json" occurs in its Accept header (an
\* absent header counting as */*) or its $format parameter is json.
IndicatesJson(r) ==
    \/ Contains(JSON, IF r.accept = <<>> THEN ANY_TYPE ELSE Head(r.accept))
    \/ (r.format # <<>> /\ Head(r.format) = JSON)

DeckUntouched ==
    /\ deck' = deck
    /\ order' = order
    /\ dealt' = dealt
    /\ seedReads' = seedReads

\* C11: the deck is never reshuffled or rebuilt: its remaining sequence is
\* always a suffix of the order fixed when it was built, that order never
\* changes, and the remaining count never goes up, whatever is requested.
C11_NeverReshuffled ==
    /\ [](deck.isNone \/ IsSuffix(deck.cards, order))
    /\ [][/\ Remaining(deck') <= Remaining(deck)
          /\ ~deck.isNone => order' = order]_vars

\* A /dealer/hands request failed on a deck that had run low.
C11_Witness ==
    /\ req.path = HANDS
    /\ DeckExhausted(resp)
    /\ Len(deck.cards) \in 1..25
    /\ IsSuffix(deck.cards, order)

\* C12: once no card remains, every request that gets as far as dealing
\* fails with DeckExhausted and leaves the deck empty, a deal of 0 cards
\* gives an empty hand and changes nothing, and a deck once built is never
\* None again.
C12_Absorbing ==
    /\ []((~deck.isNone /\ deck.cards = <<>>)
          => Deck_deal(deck, 0) = [ok |-> TRUE, hand |-> <<>>, deck |-> deck])
    /\ [][/\ ~deck.isNone => ~deck'.isNone
          /\ (/\ ~deck.isNone
              /\ deck.cards = <<>>
              /\ IsDealing(req')
              /\ resp'.status # BAD_REQUEST)
             => /\ DeckExhausted(resp')
                /\ deck' = deck
                /\ dealt' = dealt]_vars

\* A request met the emptied deck and failed.
C12_Witness ==
    /\ ~deck.isNone
    /\ deck.cards = <<>>
    /\ Len(dealt) = DeckSize
    /\ DeckExhausted(resp)

\* C13: a /dealer/hand or /dealer/hands request that does not say it takes
\* JSON is answered 400 whatever its cards values are, with the deck neither
\* built nor changed; one that does say so is not turned away by the gate:
\* with acceptable sizes it is not answered 400.
C13_Gate ==
    [][IsDealing(req')
       => /\ ~IndicatesJson(req')
             => /\ resp'.status = BAD_REQUEST
                /\ resp'.body = <<>>
                /\ DeckUntouched
          /\ (IndicatesJson(req') /\ Acceptable(req'))
             => resp'.status # BAD_REQUEST]_vars

\* $format=jsonp with an Accept header naming no JSON was answered 400.
C13_Witness ==
    /\ IsDealing(req)
    /\ req.format = <<JSONP>>
    /\ req.accept = <<TEXT_HTML>>
    /\ Acceptable(req)
    /\ resp.status = BAD_REQUEST

\* C14: /dealer/openapi.yaml and /dealer/openapi.json are answered 200
\* whatever the Accept header and $format are, and serving them neither
\* builds nor changes the deck.
C14_OpenApiExempt ==
    [][req'.path \in {OPENAPI_YAML, OPENAPI_JSON}
       => /\ resp'.status = OK
          /\ DeckUntouched]_vars

\* An OpenAPI document was served to a request that names no JSON, with the
\* deck part dealt.
C14_Witness ==
    /\ req.path \in {OPENAPI_YAML, OPENAPI_JSON}
    /\ ~IndicatesJson(req)
    /\ resp.status = OK
    /\ Len(deck.cards) \in 1..(DeckSize - 1)

\* C17: with one request at a time, get_deck reads the seed and builds the
\* deck exactly once, on the first dealing request that passes the gate and
\* validation; later requests get that deck, with no new seeding and no new
\* deck, and a request answered 400 never builds it.
C17_BuiltOnce ==
    /\ [](seedReads = IF deck.isNone THEN 0 ELSE 1)
    /\ [][/\ seedReads' # seedReads
             => /\ deck.isNone
                /\ IsDealing(req')
                /\ IndicatesJson(req')
                /\ resp'.status # BAD_REQUEST
          /\ (deck.isNone /\ IsDealing(req') /\ resp'.status # BAD_REQUEST)
             => /\ seedReads' = 1
                /\ ~deck'.isNone
          /\ ~deck.isNone => order' = order
          /\ resp'.status = BAD_REQUEST => DeckUntouched]_vars

\* A later request was served from the deck built once before.
C17_Witness ==
    /\ seedReads = 1
    /\ resp.status = OK
    /\ IsDealing(req)
    /\ Len(dealt) > Len(ResponseCards(req, resp))

\* C15: two runs started with the same seed value and sent the same
\* requests return the same cards, request by request: their responses
\* and their decks agree after every request.
C15_SameSeedSameCards ==
    seedEnv # <<>> => (twin.resp = resp /\ twin.deck = deck)

\* Both seeded runs answered a later request with the same cards.
C15_Witness ==
    /\ seedEnv # <<>>
    /\ resp.status = OK
    /\ IsDealing(req)
    /\ ResponseCards(req, twin.resp) = ResponseCards(req, resp)
    /\ Len(dealt) > Len(ResponseCards(req, resp))

\* The total of the increments of the logged calls for a key, through
\* whatever instance they were made.
RECURSIVE TotalOf(_, _)
TotalOf(key, calls) ==
    IF calls = <<>> THEN 0
    ELSE (IF Head(calls)[2] = key THEN Head(calls)[3] ELSE 0)
         + TotalOf(key, Tail(calls))

CountedKeys(calls) == {calls[i][2] : i \in 1..Len(calls)}

\* A counts() result that lists every key counted so far exactly once, with
\* the total of all increments made for it.
ReportsTotals(result, calls) ==
    /\ {result[i].key : i \in 1..Len(result)} = CountedKeys(calls)
    /\ Len(result) = Cardinality(CountedKeys(calls))
    /\ \A i \in 1..Len(result) : result[i].n = TotalOf(result[i].key, calls)

\* C16: all EventCounter instances share one set of counts: counts() on any
\* instance, also one that never counted, reports for each key the total
\* of the increments made through all instances.
C16_SharedCounts ==
    /\ \A self \in 1..Len(instances) :
          ReportsTotals(counts(self, EventCounter_counts, instances), log)
    /\ reported.by # 0 => ReportsTotals(reported.result, log)

\* counts() on an instance that never counted reported what two other
\* instances had counted.
C16_Witness ==
    /\ reported.by # 0
    /\ \A i \in 1..Len(log) : log[i][1] # reported.by
    /\ Cardinality({log[i][1] : i \in 1..Len(log)}) >= 2
    /\ ReportsTotals(reported.result, log)

\* Every card the threaded service has returned, in the order returned.
ReturnedCards == Flatten([i \in 1..Len(returned) |-> returned[i].cards])

\* The cards the global deck of the threaded service still holds.
RemainingNow == IF deckRef = NoObject THEN DeckSize ELSE Len(heap[deckRef])

\* Two responses of the threaded service hold the same card.
SameCardTwice ==
    \E i, j \in 1..Len(returned) :
       /\ i < j
       /\ Range(returned[i].cards) \cap Range(returned[j].cards) # {}

\* C18: with at most one dealing request in flight at a time the deck
\* invariants hold: a card is returned twice, or remaining + dealt differs
\* from 52, only in a run where two requests overlapped.
C18_OnlyOverlapBreaks ==
    (SameCardTwice \/ RemainingNow + Len(ReturnedCards) # DeckSize)
        => overlapped

\* Two overlapping requests were answered by different threads with the
\* same card, and remaining + dealt is no longer 52.
C18_Witness ==
    /\ overlapped
    /\ \E i, j \in 1..Len(returned) :
          /\ returned[i].thread # returned[j].thread
          /\ Range(returned[i].cards) \cap Range(returned[j].cards) # {}
    /\ RemainingNow + Len(ReturnedCards) # DeckSize

====
